---- MODULE Spec2Model ----
(***************************************************************************)
(* A model of the Novelpia scraper's crawl engine.                         *)
(*                                                                         *)
(* src/NovelpiaScraperBeta.py: fetch_page (the blank-page ladder behind    *)
(* the semaphore), download_cover (the quota-bounded asset download),      *)
(* process_novel (classify, forbidden-list, write one line), and the two   *)
(* orchestrators run_normal_scrape and run_rescrape, which consume task    *)
(* completions through asyncio.as_completed.                               *)
(*                                                                         *)
(* Every task is a coroutine: its pc names the await it is suspended on,   *)
(* and one action is the code that runs from that await to the next one.   *)
(* asyncio runs one coroutine at a time, so the code between two awaits    *)
(* is atomic; the order in which suspended coroutines resume is free.      *)
(***************************************************************************)
EXTENDS Integers, Sequences, FiniteSets, TLC

\* ---------------------------------------------------------------- bounds

\* The ID range of a session is 0..MaxId (config start_id = 0, end_id = MaxId).
MaxId == 2

\* asyncio.Semaphore(CONCURRENT_REQUESTS_LIMIT); the script sets 5, the model
\* a smaller number so that MaxId + 1 tasks contend for the gate.
CONCURRENT_REQUESTS_LIMIT == 2

\* config['max_storage_bytes'], the operator's budget, in model bytes.
MaxStorageBytes == 2

\* Largest size of a received cover and of a stored cover file.
MaxAssetSize == 2

\* Longest output file and forbidden file a session starts from.
MaxPrior == 1

\* ------------------------------------------------------------- ID strings

\* f"{i:06d}": the zero-padded ID string of number i.
Pad6 == <<"000000", "000001", "000002", "000003", "000004", "000005">>

Fmt06(i) == Pad6[i + 1]

\* int(s) for a string of digits: the zero-padded IDs and the short numbers
\* that may occur inside a title.
IntOf(s) ==
    CASE s = "000000" -> 0 [] s = "000001" -> 1 [] s = "000002" -> 2
      [] s = "000003" -> 3 [] s = "000004" -> 4 [] s = "000005" -> 5
      [] s = "7" -> 7

\* float('inf'), the initial latest_known_novel_id[0]: above every ID.
Inf == 1000000

IdRange == 0 .. MaxId

IdStrings == {Fmt06(i) : i \in IdRange}

\* ------------------------------------------------------------ file lines

\* A title is modelled by the digit strings that follow ", " inside it, in
\* order: <<>> is a title without such a fragment, <<"7">> is a title such
\* as "Top, 7 heroes".
Titles == {<<>>, <<"7">>}

\* One line of the output file.  fmt "json" is json.dumps(data) + '\n' and
\* fmt "title" is f"{title}, {id}\n"; the other values of fmt are the lines
\* of MalformedLines.  completed says that the record's
\* publication_status is the "completed" label, cover the record's
\* cover_local_path: "None", a SKIPPED_ or DOWNLOAD_FAILED_ marker, or
\* "local_path" for the path of the stored cover.
Line(fmt, id, title, status, completed, cover) ==
    [fmt |-> fmt, id |-> id, title |-> title, status |-> status,
     completed |-> completed, cover |-> cover]

\* The digit strings matched by r', (\d+)' in a title line, left to right:
\* those of the title, then the ID the line ends with.
CommaNumbers(line) == line.title \o <<line.id>>

\* The ID run_normal_scrape indexes from one line of an existing output:
\* json.loads(line)['id'] for metadata, re.search(r', (\d+)', line).group(1)
\* (the first match) for titles.
IndexedIdOf(line) ==
    IF line.fmt = "json" THEN line.id ELSE Head(CommaNumbers(line))

RECURSIVE SeqToSet(_)
SeqToSet(s) == IF s = <<>> THEN {} ELSE {Head(s)} \cup SeqToSet(Tail(s))

\* Lines no session of the scraper writes into a metadata file: fmt
\* "invalid" is text that is not JSON, "nonobject" a JSON value that is not
\* an object (a number), "noid" a JSON object without the key 'id'.
MalformedLines ==
    {Line(f, "", <<>>, "", FALSE, "None") :
        f \in {"invalid", "nonobject", "noid"}}

\* The lines at which the scan of a metadata file goes on to the next line:
\* json.loads raises JSONDecodeError, or ['id'] raises KeyError.
ScanSkips(line) == line.fmt \in {"invalid", "noid"}

\* The lines at which the scan lets an exception through: subscripting a
\* number with 'id' raises TypeError, which the except clause does not name.
ScanRaises(line) == line.fmt = "nonobject"

\* indexed_ids of run_normal_scrape, built from the lines of the output file.
IndexedIds(cfg, file) ==
    IF cfg.output_file /\ cfg.continue_scrape
    THEN {IndexedIdOf(file[k]) :
            k \in {j \in 1 .. Len(file) : ~ScanSkips(file[j])}}
    ELSE {}

\* forbidden_ids of main: the stripped lines of forbidden.txt unless ignored.
LoadForbidden(cfg, ffile) ==
    IF cfg.ignore_forbidden_file THEN {} ELSE SeqToSet(ffile)

\* A candidate list that leaves out the indexed IDs only.
RECURSIVE CandidatesForbiddenToo(_, _, _)
CandidatesForbiddenToo(i, indexed, forbidden) ==
    IF i > MaxId THEN <<>>
    ELSE IF Fmt06(i) \notin indexed
         THEN <<Fmt06(i)>> \o CandidatesForbiddenToo(i + 1, indexed, forbidden)
         ELSE CandidatesForbiddenToo(i + 1, indexed, forbidden)

\* tasks_to_create of run_normal_scrape: the IDs of the range, ascending,
\* that are neither indexed nor forbidden.
RECURSIVE Candidates(_, _, _)
Candidates(i, indexed, forbidden) ==
    IF i > MaxId THEN <<>>
    ELSE IF Fmt06(i) \notin indexed /\ Fmt06(i) \notin forbidden
         THEN <<Fmt06(i)>> \o Candidates(i + 1, indexed, forbidden)
         ELSE Candidates(i + 1, indexed, forbidden)

\* ------------------------------------------------------------------ state

VARIABLES
    config,                 \* the session's options (configure_scrape)
    orig_file,              \* the output file as it was before this session
    out_file,               \* the lines of config['output_file']
    tmp_file,               \* the lines of the rescrape's '.tmp' file
    tmp_exists,             \* whether the '.tmp' file exists
    f_open,                 \* whether f_output is open
    unflushed,              \* lines written to f_output that are still in its buffer
    disk_full,              \* whether a write to f_output raises OSError
    forbidden_file,         \* the lines of forbidden.txt
    forbidden_ids,          \* the in-memory forbidden set
    quota,                  \* current_download_size_bytes[0]
    sem_value,              \* free permits of the semaphore
    task_ids,               \* the ID of the k-th created task
    pc,                     \* the await each task is suspended on, or its end
    cancel_req,             \* tasks on which cancel() was called and not yet delivered
    result,                 \* what process_novel returned
    attempts,               \* page requests the task's fetch_page has issued
    blanks,                 \* blank pages fetch_page has received for the task
    errors,                 \* failed page requests of the task's fetch_page
    random_delays,          \* randomized sleeps the task's fetch_page has made
    header_draws,           \* random.choice(USER_AGENTS) calls of the fetch_page
    kind,                   \* what parse_novel_data made of the task's page
    received,               \* len(content) of the cover the task has read, or 0
    title,                  \* data['title'] of the task's parsed page
    ready,                  \* as_completed: finished tasks not yet consumed, in order
    orch,                   \* the orchestrator's position
    outcome,                \* how the orchestrator's loop ended
    latest_known_novel_id,  \* lowest boundary ID consumed so far
    found_count,
    covers_downloaded,
    tasks_completed,
    summaries               \* calls of print_summary

constVars == <<config, orig_file, task_ids>>
fileVars  == <<out_file, tmp_file, tmp_exists, f_open, unflushed,
               disk_full>>
forbVars  == <<forbidden_file, forbidden_ids>>
\* The counters describe a call of fetch_page: they are kept when the
\* call ends without a page (None, IPBanException) and dropped, with the
\* call's frame, when it returns a page or is cancelled.
fetchVars == <<attempts, blanks, errors, random_delays, header_draws>>
orchVars  == <<orch, outcome, latest_known_novel_id, found_count,
               covers_downloaded, tasks_completed, summaries>>

vars == <<config, orig_file, out_file, tmp_file, tmp_exists, f_open, unflushed,
          disk_full,
          forbidden_file, forbidden_ids, quota, sem_value, task_ids, pc,
          cancel_req, result, attempts, blanks, errors, random_delays,
          header_draws, kind, received, title,
          ready, orch,
          outcome, latest_known_novel_id, found_count, covers_downloaded,
          tasks_completed, summaries>>

Tasks == 1 .. Len(task_ids)

\* tasks[novel_id_str] = task: a later task for the same ID replaces the
\* earlier one in the dict, which keeps running untracked.
Tracked(t) == \A u \in Tasks : u > t => task_ids[u] # task_ids[t]

TrackedTasks == {t \in Tasks : Tracked(t)}

Terminal == {"returned", "ban", "fault", "cancelled"}

\* A gate that is held during the requests only, not during the sleeps.
HoldsGatePerRequest == {"get1", "get2", "get3"}

\* The awaits inside "async with semaphore" of fetch_page.
HoldsGate == {"get1", "sleep5", "get2", "cooldown", "get3"}

\* The awaits of fetch_page on an HTTP request.
PageRequest == {"get1", "get2", "get3"}

Done(t) == pc[t] \in Terminal

NoResult == [status |-> "", cover_dl |-> FALSE, data_wr |-> FALSE]

\* ---------------------------------------------------------------- pages

\* What a successful, non-blank page can hold, as far as the code reads it:
\* the alert-modal texts, a twitter:title meta tag with or without the
\* expected prefix, an og:image (cover) and the adult badge.  A cover and
\* its badge are only read when covers are downloaded, a title's text only
\* when title lines are written.
ValidPages(cfg) ==
    {[kind |-> "valid", title |-> tt, cover |-> cv, adult |-> ad] :
        tt \in (IF cfg.scrape_titles_only THEN Titles ELSE {<<>>}),
        cv \in (IF cfg.download_covers THEN BOOLEAN ELSE {FALSE}),
        ad \in (IF cfg.download_covers THEN BOOLEAN ELSE {FALSE})}

OtherPage(k) == [kind |-> k, title |-> <<>>, cover |-> FALSE, adult |-> FALSE]

Pages(cfg) ==
    {p \in ValidPages(cfg) : p.adult => p.cover}
    \cup {OtherPage(k) : k \in {"boundary", "deleted", "denied",
                                "unparseable", "malformed"}}

\* -------------------------------------------------------------- fetch_page

\* A task that goes on although cancel() was called on it.
LiveDespiteCancel(t) == ~Done(t)

\* The task resumes normally: it has not ended and no cancel() is pending.
Live(t) == ~Done(t) /\ t \notin cancel_req

\* The frame of the task's fetch_page call is gone.
FrameDropped(t) ==
    /\ attempts' = [attempts EXCEPT ![t] = 0]
    /\ blanks' = [blanks EXCEPT ![t] = 0]
    /\ errors' = [errors EXCEPT ![t] = 0]
    /\ random_delays' = [random_delays EXCEPT ![t] = 0]
    /\ header_draws' = [header_draws EXCEPT ![t] = 0]

\* A gate that admits every task.
CanAcquireAlways == TRUE

\* Semaphore.acquire does not block while a permit is free.
CanAcquire == sem_value > 0

\* A ladder that gives up at the second blank page, without the cooldown.
AfterBlankNoCooldown(p) ==
    CASE p = "get1" -> "sleep5"
      [] p = "get2" -> "ban"
      [] p = "get3" -> "ban"

\* The ladder after a blank page: the 5 s sleep, the 24 h sleep, IPBanException.
AfterBlank(p) ==
    CASE p = "get1" -> "sleep5"
      [] p = "get2" -> "cooldown"
      [] p = "get3" -> "ban"

\* A fetch that retries a failed request within the ladder.
AfterErrorRetryAll(p) ==
    CASE p = "get1" -> "sleep5"
      [] p = "get2" -> "cooldown"
      [] p = "get3" -> "returned"

\* A fetch that treats a failed first request like a blank page.
AfterErrorRetryOnce(p) == IF p = "get1" THEN "sleep5" ELSE "returned"

\* aiohttp.ClientError or asyncio.TimeoutError at any request: return None.
AfterError(p) == "returned"

\* A ladder that sends the final request after either sleep.
AfterSleepFinal(p) == "get3"

\* The request that follows each sleep inside the semaphore.
AfterSleep(p) == IF p = "sleep5" THEN "get2" ELSE "get3"

\* A step that keeps the permit when the task leaves the block by
\* CancelledError.
StepKeepsPermit(t, p, res, ttl) ==
    /\ pc' = [pc EXCEPT ![t] = p]
    /\ result' = [result EXCEPT ![t] = res]
    /\ title' = [title EXCEPT ![t] = ttl]
    /\ sem_value' = IF pc[t] \in HoldsGate /\ p \notin HoldsGate
                       /\ p # "cancelled"
                    THEN sem_value + 1 ELSE sem_value
    /\ ready' = IF p \in Terminal /\ Tracked(t) THEN Append(ready, t) ELSE ready

\* The common part of a step of task t: its new position, what it returned,
\* the title it carries, the permit given back when it leaves the
\* "async with semaphore" block, and its completion reaching as_completed.
Step(t, p, res, ttl) ==
    /\ pc' = [pc EXCEPT ![t] = p]
    /\ result' = [result EXCEPT ![t] = res]
    /\ title' = [title EXCEPT ![t] = ttl]
    /\ sem_value' = IF pc[t] \in HoldsGate /\ p \notin HoldsGate
                    THEN sem_value + 1 ELSE sem_value
    /\ ready' = IF p \in Terminal /\ Tracked(t) THEN Append(ready, t) ELSE ready

\* How many of the sleeps that end at await p were drawn from
\* random.uniform(min_delay, max_delay): the one before the first request;
\* the sleeps before the second and the final request are fixed.
RandomDelays(p) == IF p = "delay" THEN 1 ELSE 0

\* A ladder that draws a header before every request.
HeaderDrawsEach(p) == 1

\* How many headers are drawn when await p is over: one after the first
\* delay, which the three requests share.
HeaderDraws(p) == IF p = "delay" THEN 1 ELSE 0

\* asyncio.sleep(random.uniform(min_delay, max_delay)) is over: the header is
\* drawn, and the task enters the semaphore and sends the first request, or
\* waits for a permit.
AfterDelay(t) ==
    /\ Live(t) /\ pc[t] = "delay"
    /\ random_delays' = [random_delays EXCEPT ![t] = @ + RandomDelays(pc[t])]
    /\ header_draws' = [header_draws EXCEPT ![t] = @ + HeaderDraws(pc[t])]
    /\ IF CanAcquire
       THEN /\ pc' = [pc EXCEPT ![t] = "get1"]
            /\ sem_value' = sem_value - 1
            /\ attempts' = [attempts EXCEPT ![t] = 1]
       ELSE /\ pc' = [pc EXCEPT ![t] = "gate"]
            /\ UNCHANGED <<sem_value, attempts>>
    /\ UNCHANGED <<constVars, fileVars, forbVars, orchVars, quota,
                   cancel_req, result, blanks, errors, kind, received, title,
                   ready>>

\* A permit is free: the waiting task takes it and sends the first request.
Acquire(t) ==
    /\ Live(t) /\ pc[t] = "gate"
    /\ CanAcquire
    /\ pc' = [pc EXCEPT ![t] = "get1"]
    /\ sem_value' = sem_value - 1
    /\ attempts' = [attempts EXCEPT ![t] = 1]
    /\ UNCHANGED <<constVars, fileVars, forbVars, orchVars, quota,
                   cancel_req, result, blanks, errors, random_delays,
                   header_draws, kind, received, title, ready>>

\* The response is a 2xx page that is empty or all whitespace.
RespondBlank(t) ==
    /\ Live(t) /\ pc[t] \in PageRequest
    /\ Step(t, AfterBlank(pc[t]), NoResult, <<>>)
    /\ blanks' = [blanks EXCEPT ![t] = @ + 1]
    /\ UNCHANGED <<constVars, fileVars, forbVars, orchVars, quota,
                   cancel_req, attempts, errors, random_delays,
                   header_draws, kind, received>>

\* A failed request that forbidden-lists the ID as well.
RespondErrorForbids(t) ==
    /\ Live(t) /\ pc[t] \in PageRequest
    /\ Step(t, "returned",
            [status |-> "network_error", cover_dl |-> FALSE,
             data_wr |-> FALSE], <<>>)
    /\ errors' = [errors EXCEPT ![t] = @ + 1]
    /\ forbidden_ids' = forbidden_ids \cup {task_ids[t]}
    /\ forbidden_file' = Append(forbidden_file, task_ids[t])
    /\ UNCHANGED <<constVars, fileVars, orchVars, quota,
                   cancel_req, attempts, blanks, random_delays,
                   header_draws, kind, received>>

\* The request fails: a timeout, a connection failure, raise_for_status.
\* fetch_page returns None and process_novel returns 'network_error'.
RespondError(t) ==
    /\ Live(t) /\ pc[t] \in PageRequest
    /\ Step(t, AfterError(pc[t]),
            IF AfterError(pc[t]) = "returned"
            THEN [status |-> "network_error", cover_dl |-> FALSE,
                  data_wr |-> FALSE]
            ELSE NoResult, <<>>)
    /\ errors' = [errors EXCEPT ![t] = @ + 1]
    /\ UNCHANGED <<constVars, fileVars, forbVars, orchVars, quota,
                   cancel_req, attempts, blanks, random_delays,
                   header_draws, kind, received>>

\* asyncio.sleep(5) or asyncio.sleep(24 * 60 * 60) is over: the next request.
Wake(t) ==
    /\ Live(t) /\ pc[t] \in {"sleep5", "cooldown"}
    /\ pc' = [pc EXCEPT ![t] = AfterSleep(pc[t])]
    /\ attempts' = [attempts EXCEPT ![t] = @ + 1]
    /\ random_delays' = [random_delays EXCEPT ![t] = @ + RandomDelays(pc[t])]
    /\ header_draws' = [header_draws EXCEPT ![t] = @ + HeaderDraws(pc[t])]
    /\ UNCHANGED <<constVars, fileVars, forbVars, orchVars, quota, sem_value,
                   cancel_req, result, blanks, errors, kind, received, title,
                   ready>>

\* ----------------------------------------------------------- process_novel

Returned(status, cover_dl, data_wr) ==
    [status |-> status, cover_dl |-> cover_dl, data_wr |-> data_wr]

\* The line process_novel writes for its data.  No session reads the
\* publication_status of a line it wrote itself, so it is not drawn.
RecordLine(t, status, ttl, cover) ==
    Line(IF config.scrape_metadata THEN "json" ELSE "title",
         task_ids[t], ttl, status, FALSE,
         IF config.scrape_metadata THEN cover ELSE "None")

\* Whether process_novel writes a line for its data: file_handle is set and
\* one of the two writing modes is on.
WritesRecord ==
    config.output_file /\ (config.scrape_metadata \/ config.scrape_titles_only)

\* The end of process_novel for a dict: the line is written to the handle
\* (the '.tmp' file in a rescrape) and the result returned.  A write to a
\* handle that was closed raises ValueError, a write that the disk refuses
\* OSError; process_novel catches neither.  write() puts the line into the
\* buffer of the handle; nothing in the script flushes it.
Finish(t, status, cover, ttl) ==
    IF WritesRecord /\ (~f_open \/ disk_full)
    THEN /\ Step(t, "fault", NoResult, <<>>)
         /\ UNCHANGED <<out_file, tmp_file, unflushed>>
    ELSE /\ Step(t, "returned",
                 Returned(status, cover = "local_path", WritesRecord), <<>>)
         /\ IF ~WritesRecord THEN UNCHANGED <<out_file, tmp_file, unflushed>>
            ELSE /\ unflushed' = unflushed + 1
                 /\ IF config.rescrape
                    THEN /\ tmp_file' = Append(tmp_file,
                                               RecordLine(t, status, ttl, cover))
                         /\ UNCHANGED out_file
                    ELSE /\ out_file' = Append(out_file,
                                               RecordLine(t, status, ttl, cover))
                         /\ UNCHANGED tmp_file

\* A process_novel that takes every parsed page for a record.
NoDataNever(page) == FALSE

\* parse_novel_data returned None, so isinstance(data, dict) fails: the page
\* has no alert text and no title.
NoData(page) == page.kind = "unparseable"

\* A process_novel that forbidden-lists no page.
ForbidsPageNever(page) == FALSE

\* Which deleted or access-denied pages are forbidden-listed instead of written.
ForbidsPage(page) ==
    page.kind \in {"deleted", "denied"} /\ ~config.scrape_skipped_novels

\* The forbidden entry is added once: to the set and to forbidden.txt.
AddsForbidden(id) == id \notin forbidden_ids

PageStatus(page) ==
    CASE page.kind = "deleted" -> "deleted_novel"
      [] page.kind = "denied" -> "access_denied_novel"
      [] OTHER -> "found"

\* process_novel from the return of fetch_page to its next await or its end.
ProcessPage(t, page) ==
    CASE page.kind = "boundary" ->
            /\ Step(t, "returned",
                    Returned("latest_novel_reached", FALSE, FALSE), <<>>)
            /\ UNCHANGED <<out_file, tmp_file, unflushed, forbVars>>
      [] page.kind = "malformed" ->
            /\ Step(t, "fault", NoResult, <<>>)
            /\ UNCHANGED <<out_file, tmp_file, unflushed, forbVars>>
      [] NoData(page) ->
            /\ Step(t, "returned", Returned("skipped_no_data", FALSE, FALSE),
                    <<>>)
            /\ UNCHANGED <<out_file, tmp_file, unflushed, forbVars>>
      [] ForbidsPage(page) ->
            /\ Step(t, "returned", Returned("skipped_forbidden", FALSE, FALSE),
                    <<>>)
            /\ IF AddsForbidden(task_ids[t])
               THEN /\ forbidden_ids' = forbidden_ids \cup {task_ids[t]}
                    /\ forbidden_file' = Append(forbidden_file, task_ids[t])
               ELSE UNCHANGED forbVars
            /\ UNCHANGED <<out_file, tmp_file, unflushed>>
      [] OTHER ->
            /\ UNCHANGED forbVars
            /\ IF config.download_covers /\ page.cover
               THEN IF page.adult /\ ~config.download_adult_covers
                    THEN Finish(t, PageStatus(page), "SKIPPED_ADULT",
                                page.title)
                    ELSE \E exists \in BOOLEAN :
                            IF exists /\ ~config.rescrape
                            THEN Finish(t, PageStatus(page), "local_path",
                                        page.title)
                            ELSE /\ Step(t, "dl_delay", NoResult, page.title)
                                 /\ UNCHANGED <<out_file, tmp_file, unflushed>>
               ELSE Finish(t, PageStatus(page), "None", page.title)

\* The response is a page with content: fetch_page returns it, the permit
\* is released and process_novel goes on without an await.
RespondPage(t) ==
    /\ Live(t) /\ pc[t] \in PageRequest
    /\ \E page \in Pages(config) :
          /\ kind' = [kind EXCEPT ![t] = page.kind]
          /\ ProcessPage(t, page)
    /\ FrameDropped(t)
    /\ UNCHANGED <<constVars, tmp_exists, f_open, disk_full, orchVars, quota,
                   cancel_req, received>>

\* ---------------------------------------------------------- download_cover

Sizes == 1 .. MaxAssetSize

\* A downloader without the check before the request.
OverBudgetNever(q) == FALSE

\* The check before the request.
OverBudget(q) == q >= config.max_storage_bytes

\* A downloader without the check after the content was read.
WouldExceedNever(q, len) == FALSE

\* The check after the content was read.
WouldExceed(q, len) == q + len > config.max_storage_bytes

\* The randomized delay of download_cover is over: SKIPPED_LIMIT when the
\* counter is at or over the budget, else the request is sent.
CoverAfterDelay(t) ==
    /\ Live(t) /\ pc[t] = "dl_delay"
    /\ IF OverBudget(quota)
       THEN Finish(t, "found", "SKIPPED_LIMIT", title[t])
       ELSE /\ Step(t, "dl_get", NoResult, title[t])
            /\ UNCHANGED <<out_file, tmp_file, unflushed>>
    /\ UNCHANGED <<constVars, tmp_exists, f_open, disk_full, forbVars,
                   orchVars, quota,
                   cancel_req, fetchVars, kind, received>>

\* A download_cover that lets the exception of its request through.
CoverErrorRaises(t) ==
    /\ Live(t) /\ pc[t] = "dl_get"
    /\ Step(t, "fault", NoResult, <<>>)
    /\ UNCHANGED <<constVars, fileVars, forbVars, orchVars, quota,
                   cancel_req, fetchVars, kind, received>>

\* The cover request fails: DOWNLOAD_FAILED_UNKNOWN, the record is written.
CoverError(t) ==
    /\ Live(t) /\ pc[t] = "dl_get"
    /\ Finish(t, "found", "DOWNLOAD_FAILED_UNKNOWN", title[t])
    /\ UNCHANGED <<constVars, tmp_exists, f_open, disk_full, forbVars,
                   orchVars, quota,
                   cancel_req, fetchVars, kind, received>>

\* The cover's content arrives with len(content) = len.  Refused when it
\* would exceed the budget; else the image is saved (re-encoded as JPEG, or
\* raw when that fails) and os.path.getsize of the stored file, size, is
\* added to the counter.
CoverContent(t) ==
    /\ Live(t) /\ pc[t] = "dl_get"
    /\ \E len \in Sizes, size \in Sizes :
          /\ received' = [received EXCEPT ![t] = len]
          /\ IF WouldExceed(quota, len)
             THEN /\ Finish(t, "found", "SKIPPED_LIMIT", title[t])
                  /\ UNCHANGED quota
             ELSE /\ quota' = quota + size
                  /\ Finish(t, "found", "local_path", title[t])
    /\ UNCHANGED <<constVars, tmp_exists, f_open, disk_full, forbVars, orchVars,
                   cancel_req, fetchVars, kind>>

\* ------------------------------------------------------------ cancellation

\* CancelledError is delivered at the await the task is suspended on; no
\* except clause of the three coroutines catches it, and leaving the
\* "async with semaphore" block gives the permit back.
Unwind(t) ==
    /\ ~Done(t) /\ t \in cancel_req
    /\ Step(t, "cancelled", NoResult, <<>>)
    /\ cancel_req' = cancel_req \ {t}
    /\ FrameDropped(t)
    /\ UNCHANGED <<constVars, fileVars, forbVars, orchVars, quota, kind,
                   received>>

\* ------------------------------------------------------------ orchestrator

\* A loop that waits for a further completion after the last one.
LoopEndsNever(rest) == FALSE

\* The for loop over as_completed(tasks.values()) has consumed every task
\* of the dict once the queue is empty and all of them have finished.
LoopEnds(rest) == rest = <<>> /\ \A u \in TrackedTasks : Done(u)

\* An orchestrator that leaves the loop on a ban without cancelling a task.
BanCancelledNone == {}

\* "for t in tasks.values(): t.cancel()" after IPBanException: cancel() acts
\* on the tasks that have not finished.
BanCancelled == {u \in TrackedTasks : ~Done(u)}

\* A boundary that cancels every unfinished task, whatever its ID.
BoundaryCancelledAll(b) == {u \in TrackedTasks : ~Done(u)}

\* The tasks cancelled when boundary b is recorded.
BoundaryCancelled(b) ==
    {u \in TrackedTasks : IntOf(task_ids[u]) > b /\ ~Done(u)}

\* Whether a consumed result is added to the totals.
Counted(id, latest) == id < latest

\* One iteration of the loop of run_normal_scrape, with the finally block
\* (close, print_summary) when the iteration is the last one, breaks, or
\* lets an exception through.
ConsumeNormal ==
    /\ orch = "loop" /\ ~config.rescrape /\ ready # <<>>
    /\ LET t == Head(ready)
           rest == Tail(ready)
           r == result[t]
           id == IntOf(task_ids[t])
           lower == /\ pc[t] = "returned"
                    /\ r.status = "latest_novel_reached"
                    /\ id < latest_known_novel_id
           latest == IF lower THEN id ELSE latest_known_novel_id
           cancelled == CASE pc[t] = "ban" -> BanCancelled
                          [] lower -> BoundaryCancelled(id)
                          [] OTHER -> {}
           ends == CASE pc[t] = "ban" -> "ban"
                     [] pc[t] = "fault" -> "fault"
                     [] LoopEnds(rest) -> "complete"
                     [] OTHER -> ""
       IN  /\ ready' = rest
           /\ cancel_req' = cancel_req \cup cancelled
           /\ latest_known_novel_id' = latest
           /\ tasks_completed' = IF pc[t] \in {"returned", "cancelled"}
                                 THEN tasks_completed + 1 ELSE tasks_completed
           /\ found_count' = IF pc[t] = "returned" /\ Counted(id, latest)
                                /\ r.data_wr
                             THEN found_count + 1 ELSE found_count
           /\ covers_downloaded' = IF pc[t] = "returned" /\ Counted(id, latest)
                                      /\ r.cover_dl
                                   THEN covers_downloaded + 1
                                   ELSE covers_downloaded
           /\ outcome' = ends
           /\ summaries' = IF ends = "" THEN summaries ELSE summaries + 1
           /\ orch' = IF ends = "" THEN "loop" ELSE "closing"
           /\ f_open' = IF ends = "" THEN f_open ELSE FALSE
           /\ unflushed' = IF ends = "" THEN unflushed ELSE 0
    /\ UNCHANGED <<constVars, out_file, tmp_file, tmp_exists, disk_full,
                   forbVars, quota,
                   sem_value, pc, result, fetchVars, kind, received, title>>

\* A rescrape that replaces the original however its loop was left.
SucceededAlways(ends) == TRUE

\* success of run_rescrape: set by the else clause of the for loop, which
\* runs when the loop was not left by break or by an exception.
Succeeded(ends) == ends = "complete"

\* One iteration of the loop of run_rescrape, with its else clause and its
\* finally block: os.replace of the original by the '.tmp' file when the
\* loop ran to its end, os.remove of the '.tmp' file otherwise.
ConsumeRescrape ==
    /\ orch = "loop" /\ config.rescrape /\ ready # <<>>
    /\ LET t == Head(ready)
           rest == Tail(ready)
           r == result[t]
           cancelled == IF pc[t] = "ban" THEN BanCancelled ELSE {}
           ends == CASE pc[t] = "ban" -> "ban"
                     [] pc[t] = "fault" -> "fault"
                     [] LoopEnds(rest) -> "complete"
                     [] OTHER -> ""
       IN  /\ ready' = rest
           /\ cancel_req' = cancel_req \cup cancelled
           /\ tasks_completed' = IF pc[t] = "returned"
                                 THEN tasks_completed + 1 ELSE tasks_completed
           /\ found_count' = IF pc[t] = "returned" /\ r.data_wr
                             THEN found_count + 1 ELSE found_count
           /\ covers_downloaded' = IF pc[t] = "returned" /\ r.cover_dl
                                   THEN covers_downloaded + 1
                                   ELSE covers_downloaded
           /\ outcome' = ends
           /\ summaries' = IF ends = "" THEN summaries ELSE summaries + 1
           /\ orch' = IF ends = "" THEN "loop" ELSE "closing"
           /\ f_open' = IF ends = "" THEN f_open ELSE FALSE
           /\ unflushed' = IF ends = "" THEN unflushed ELSE 0
           /\ out_file' = IF ends # "" /\ Succeeded(ends)
                          THEN tmp_file ELSE out_file
           /\ tmp_file' = IF ends = "" THEN tmp_file ELSE <<>>
           /\ tmp_exists' = IF ends = "" THEN tmp_exists ELSE FALSE
    /\ UNCHANGED <<constVars, disk_full, forbVars, quota, sem_value, pc,
                   result, fetchVars, kind, received, title,
                   latest_known_novel_id>>

\* The loop over as_completed has taken the finished task from the queue.
Consumed(t) == Done(t) /\ Tracked(t) /\ t \notin SeqToSet(ready)

\* One iteration of the loop of main of NovelpiaScraper.py, with the
\* finally block (close, the summary) when the iteration is the last one or
\* lets an exception through.  IPBanException is printed and the loop
\* continues; a latest_novel_reached result is printed and skipped; the
\* loop cancels no task and is left by no break, and every other result is
\* added to the totals.
ConsumeStable ==
    /\ orch = "loop" /\ ready # <<>>
    /\ LET t == Head(ready)
           rest == Tail(ready)
           r == result[t]
           counted == pc[t] = "returned" /\ r.status # "latest_novel_reached"
           ends == CASE pc[t] = "fault" -> "fault"
                     [] LoopEnds(rest) -> "complete"
                     [] OTHER -> ""
       IN  /\ ready' = rest
           /\ tasks_completed' = IF pc[t] = "returned"
                                 THEN tasks_completed + 1 ELSE tasks_completed
           /\ found_count' = IF counted /\ r.data_wr
                             THEN found_count + 1 ELSE found_count
           /\ covers_downloaded' = IF counted /\ r.cover_dl
                                   THEN covers_downloaded + 1
                                   ELSE covers_downloaded
           /\ outcome' = ends
           /\ summaries' = IF ends = "" THEN summaries ELSE summaries + 1
           /\ orch' = IF ends = "" THEN "loop" ELSE "closing"
           /\ f_open' = IF ends = "" THEN f_open ELSE FALSE
           /\ unflushed' = IF ends = "" THEN unflushed ELSE 0
    /\ UNCHANGED <<constVars, out_file, tmp_file, tmp_exists, disk_full,
                   forbVars, quota, sem_value, pc, cancel_req, result,
                   fetchVars, kind, received, title, latest_known_novel_id>>

\* The orchestrator leaves "async with aiohttp.ClientSession()" and main
\* returns (or the exception leaves it): asyncio.run cancels every task
\* that is still pending.
Exit ==
    /\ orch = "closing"
    /\ orch' = "exited"
    /\ cancel_req' = cancel_req \cup {u \in Tasks : ~Done(u)}
    /\ UNCHANGED <<constVars, fileVars, forbVars, quota, sem_value, pc, result,
                   fetchVars, kind, received, title, ready, outcome,
                   latest_known_novel_id, found_count, covers_downloaded,
                   tasks_completed, summaries>>

\* The buffer of f_output is written out: a later write has filled it.
BufferFlush ==
    /\ f_open /\ unflushed > 0 /\ orch = "loop"
    /\ unflushed' = 0
    /\ UNCHANGED <<constVars, out_file, tmp_file, tmp_exists, f_open, disk_full,
                   forbVars,
                   orchVars, quota, sem_value, pc, cancel_req, result,
                   fetchVars, kind, received, title, ready>>

\* The process is killed while the loop runs: no finally block runs, and
\* the lines that are still in the buffer of f_output never reach the file.
Kill ==
    /\ orch = "loop" /\ ~config.rescrape
    /\ orch' = "killed"
    /\ out_file' = SubSeq(out_file, 1, Len(out_file) - unflushed)
    /\ unflushed' = 0
    /\ f_open' = FALSE
    /\ pc' = [t \in Tasks |-> IF Done(t) THEN pc[t] ELSE "killed"]
    /\ cancel_req' = {}
    /\ UNCHANGED <<constVars, tmp_file, tmp_exists, disk_full, forbVars, quota,
                   sem_value, result, fetchVars, kind, received, title, ready,
                   outcome,
                   latest_known_novel_id, found_count, covers_downloaded,
                   tasks_completed, summaries>>

\* The disk runs full while the loop runs: from now on file_handle.write
\* raises OSError.
DiskFills ==
    /\ orch = "loop" /\ f_open /\ ~disk_full
    /\ disk_full' = TRUE
    /\ UNCHANGED <<constVars, out_file, tmp_file, tmp_exists, f_open, unflushed,
                   forbVars, orchVars, quota, sem_value, pc, cancel_req, result,
                   fetchVars, kind, received, title, ready>>

\* ---------------------------------------------------------------- sessions

\* The option sets configure_scrape can return for choices 1 to 3: full
\* metadata, titles only, covers only.
NormalConfigs ==
    {c \in [output_file : BOOLEAN, scrape_metadata : BOOLEAN,
            scrape_titles_only : BOOLEAN, download_covers : BOOLEAN,
            download_adult_covers : BOOLEAN, continue_scrape : BOOLEAN,
            ignore_forbidden_file : BOOLEAN, scrape_skipped_novels : BOOLEAN,
            rescrape : {FALSE}, skip_completed_on_rescrape : {FALSE},
            max_storage_bytes : {MaxStorageBytes}] :
        /\ c.output_file = (c.scrape_metadata \/ c.scrape_titles_only)
        /\ ~(c.scrape_metadata /\ c.scrape_titles_only)
        /\ ~c.output_file => c.download_covers
        /\ c.continue_scrape => c.output_file
        /\ c.download_adult_covers => c.download_covers
        /\ c.scrape_skipped_novels => c.scrape_metadata}

\* The sequences over S of length at most n.
SeqsUpTo(S, n) == UNION {[1 .. k -> S] : k \in 0 .. n}

DistinctIds(ids) ==
    \A j, k \in 1 .. Len(ids) : j # k => ids[j] # ids[k]

\* The lines an earlier session of the same mode left in the output file.
PriorLines(cfg) ==
    {Line(IF cfg.scrape_metadata THEN "json" ELSE "title", id, tt, "found",
          FALSE, "None") :
        id \in IdStrings,
        tt \in (IF cfg.scrape_titles_only THEN Titles ELSE {<<>>})}

\* The output files a resumed session may start from: every earlier session
\* wrote each of its IDs once.
PriorOutputs(cfg) ==
    IF cfg.continue_scrape
    THEN {f \in SeqsUpTo(PriorLines(cfg), MaxPrior) :
            DistinctIds([k \in 1 .. Len(f) |-> f[k].id])}
    ELSE {<<>>}

\* The forbidden.txt files a session may start from.
PriorForbidden == {f \in SeqsUpTo(IdStrings, MaxPrior) : DistinctIds(f)}

\* The size of the covers folder at startup, when covers are downloaded.
InitialFolderSizes(cfg) ==
    IF cfg.download_covers THEN 0 .. (MaxStorageBytes + 1) ELSE {0}

\* The state when the tasks have been created (create_task in a loop without
\* an await): every task is about to start its randomized delay.  With
\* nothing to process the orchestrator prints that and returns at once.
TasksCreated(ids) ==
    /\ task_ids = ids
    /\ pc = [t \in 1 .. Len(ids) |-> "delay"]
    /\ result = [t \in 1 .. Len(ids) |-> NoResult]
    /\ attempts = [t \in 1 .. Len(ids) |-> 0]
    /\ blanks = [t \in 1 .. Len(ids) |-> 0]
    /\ errors = [t \in 1 .. Len(ids) |-> 0]
    /\ random_delays = [t \in 1 .. Len(ids) |-> 0]
    /\ header_draws = [t \in 1 .. Len(ids) |-> 0]
    /\ kind = [t \in 1 .. Len(ids) |-> ""]
    /\ received = [t \in 1 .. Len(ids) |-> 0]
    /\ title = [t \in 1 .. Len(ids) |-> <<>>]
    /\ cancel_req = {}
    /\ ready = <<>>
    /\ sem_value = CONCURRENT_REQUESTS_LIMIT
    /\ latest_known_novel_id = Inf
    /\ found_count = 0
    /\ covers_downloaded = 0
    /\ tasks_completed = 0
    /\ summaries = 0
    /\ orch = IF ids = <<>> THEN "exited" ELSE "loop"
    /\ outcome = IF ids = <<>> THEN "empty" ELSE ""

\* main and run_normal_scrape up to the creation of the tasks, for a session
\* with options from configs that finds one of the files ffiles as forbidden.txt.
InitNormal(configs, ffiles) ==
    /\ config \in configs
    /\ orig_file \in PriorOutputs(config)
    /\ out_file = IF config.output_file /\ ~config.continue_scrape
                  THEN <<>> ELSE orig_file
    /\ tmp_file = <<>>
    /\ tmp_exists = FALSE
    /\ forbidden_file \in ffiles
    /\ forbidden_ids = LoadForbidden(config, forbidden_file)
    /\ quota \in InitialFolderSizes(config)
    /\ TasksCreated(Candidates(0, IndexedIds(config, orig_file), forbidden_ids))
    /\ f_open = (config.output_file /\ task_ids # <<>>)
    /\ unflushed = 0
    /\ disk_full = FALSE

\* Metadata files a resumed session may find when the file was not left by
\* the scraper alone: lines of earlier sessions, each ID once, and
\* malformed lines.
ScannedOutputs(cfg) ==
    {f \in SeqsUpTo(PriorLines(cfg) \cup MalformedLines, MaxPrior + 1) :
        \A j, k \in 1 .. Len(f) :
            (j # k /\ f[j].fmt = "json" /\ f[k].fmt = "json")
                => f[j].id # f[k].id}

\* The exception of the scan leaves run_normal_scrape, main and
\* asyncio.run: no task was created, the handle opened for appending is
\* never closed by the script, nothing is printed but the error.
ScanAborted ==
    /\ task_ids = <<>> /\ pc = <<>> /\ result = <<>>
    /\ attempts = <<>> /\ blanks = <<>> /\ errors = <<>>
    /\ random_delays = <<>> /\ header_draws = <<>>
    /\ kind = <<>> /\ received = <<>> /\ title = <<>>
    /\ cancel_req = {}
    /\ ready = <<>>
    /\ sem_value = CONCURRENT_REQUESTS_LIMIT
    /\ latest_known_novel_id = Inf
    /\ found_count = 0
    /\ covers_downloaded = 0
    /\ tasks_completed = 0
    /\ summaries = 0
    /\ orch = "exited"
    /\ outcome = "aborted"

\* main and run_normal_scrape up to the creation of the tasks, for a
\* resumed session whose output file may hold malformed lines: the scan
\* ends at the first line that raises.
InitScan(configs) ==
    /\ config \in configs
    /\ orig_file \in ScannedOutputs(config)
    /\ out_file = orig_file
    /\ tmp_file = <<>>
    /\ tmp_exists = FALSE
    /\ forbidden_file = <<>>
    /\ forbidden_ids = LoadForbidden(config, forbidden_file)
    /\ quota \in InitialFolderSizes(config)
    /\ IF \E k \in 1 .. Len(orig_file) : ScanRaises(orig_file[k])
       THEN ScanAborted
       ELSE TasksCreated(Candidates(0, IndexedIds(config, orig_file),
                                    forbidden_ids))
    /\ f_open = (outcome = "aborted" \/ task_ids # <<>>)
    /\ unflushed = 0
    /\ disk_full = FALSE

\* Sessions that start a new output file and download no covers.
FreshConfigs ==
    {c \in NormalConfigs : ~c.download_covers /\ ~c.continue_scrape}

\* Sessions that append to the output file of an earlier session.
ResumeConfigs ==
    {c \in NormalConfigs : /\ c.continue_scrape
                           /\ ~c.download_covers
                           /\ ~c.scrape_skipped_novels}

\* Full-metadata sessions, with or without covers, that forbidden-list the
\* deleted and access-denied pages.
MetadataConfigs ==
    {c \in NormalConfigs : /\ c.scrape_metadata
                           /\ ~c.continue_scrape
                           /\ ~c.ignore_forbidden_file
                           /\ ~c.scrape_skipped_novels}

\* ids_to_process of run_rescrape: get_ids_for_rescrape reads the ID of
\* every line, except the completed ones when they are skipped.
RECURSIVE IdsForRescrape(_, _)
IdsForRescrape(file, skip_completed) ==
    IF file = <<>> THEN <<>>
    ELSE IF skip_completed /\ Head(file).completed
         THEN IdsForRescrape(Tail(file), skip_completed)
         ELSE <<Head(file).id>> \o IdsForRescrape(Tail(file), skip_completed)

\* The option sets configure_scrape can return for choice 4.
RescrapeConfigs ==
    {c \in [output_file : {TRUE}, scrape_metadata : {TRUE},
            scrape_titles_only : {FALSE}, download_covers : BOOLEAN,
            download_adult_covers : BOOLEAN, continue_scrape : {FALSE},
            ignore_forbidden_file : BOOLEAN, scrape_skipped_novels : BOOLEAN,
            rescrape : {TRUE}, skip_completed_on_rescrape : BOOLEAN,
            max_storage_bytes : {MaxStorageBytes}] :
        c.download_adult_covers => c.download_covers}

\* Rescrapes that download no covers.
PlainRescrapeConfigs ==
    {c \in RescrapeConfigs : ~c.download_covers /\ ~c.ignore_forbidden_file}

\* Rescrapes of every record that download the covers, adult ones included.
CoverRescrapeConfigs ==
    {c \in RescrapeConfigs : /\ c.download_adult_covers
                             /\ ~c.ignore_forbidden_file
                             /\ ~c.scrape_skipped_novels
                             /\ ~c.skip_completed_on_rescrape}

\* The lines of a metadata file; whether a line is completed matters only
\* when completed records are skipped.
OriginalLines(cfg) ==
    {Line("json", id, <<>>, "found", cp, "None") :
        id \in IdStrings,
        cp \in (IF cfg.skip_completed_on_rescrape THEN BOOLEAN ELSE {FALSE})}

\* The metadata files a rescrape starts from: each ID once, in ascending order.
Originals(cfg) ==
    {f \in SeqsUpTo(OriginalLines(cfg), MaxId + 1) :
        \A j, k \in 1 .. Len(f) : j < k => IntOf(f[j].id) < IntOf(f[k].id)}

\* main and run_rescrape up to the creation of the tasks: the '.tmp' file is
\* opened for writing unless there is nothing to rescrape.
InitRescrape(configs) ==
    /\ config \in configs
    /\ orig_file \in Originals(config)
    /\ out_file = orig_file
    /\ forbidden_file = <<>>
    /\ forbidden_ids = LoadForbidden(config, forbidden_file)
    /\ quota \in InitialFolderSizes(config)
    /\ TasksCreated(IdsForRescrape(orig_file,
                                   config.skip_completed_on_rescrape))
    /\ tmp_file = <<>>
    /\ tmp_exists = (task_ids # <<>>)
    /\ f_open = (task_ids # <<>>)
    /\ unflushed = 0
    /\ disk_full = FALSE

\* Metadata files that name an ID on more than one line, in ascending order.
DuplicateOriginals(cfg) ==
    {f \in SeqsUpTo(OriginalLines(cfg), MaxId + 1) :
        /\ \A j, k \in 1 .. Len(f) :
              j < k => IntOf(f[j].id) <= IntOf(f[k].id)
        /\ ~DistinctIds([k \in 1 .. Len(f) |-> f[k].id])}

\* main and run_rescrape up to the creation of the tasks, for a metadata
\* file with repeated IDs: one task is created per line of the file.
InitRescrapeDuplicates(configs) ==
    /\ config \in configs
    /\ orig_file \in DuplicateOriginals(config)
    /\ out_file = orig_file
    /\ forbidden_file = <<>>
    /\ forbidden_ids = LoadForbidden(config, forbidden_file)
    /\ quota \in InitialFolderSizes(config)
    /\ TasksCreated(IdsForRescrape(orig_file,
                                   config.skip_completed_on_rescrape))
    /\ tmp_file = <<>>
    /\ tmp_exists = (task_ids # <<>>)
    /\ f_open = (task_ids # <<>>)
    /\ unflushed = 0
    /\ disk_full = FALSE

\* The steps of the tasks of a session that downloads no covers.
PageNext ==
    \/ \E t \in Tasks : AfterDelay(t)
    \/ \E t \in Tasks : Acquire(t)
    \/ \E t \in Tasks : RespondBlank(t)
    \/ \E t \in Tasks : RespondError(t)
    \/ \E t \in Tasks : RespondPage(t)
    \/ \E t \in Tasks : Wake(t)
    \/ \E t \in Tasks : Unwind(t)

\* The steps of download_cover.
CoverNext ==
    \/ \E t \in Tasks : CoverAfterDelay(t)
    \/ \E t \in Tasks : CoverError(t)
    \/ \E t \in Tasks : CoverContent(t)

NextNormal == PageNext \/ ConsumeNormal \/ Exit

NextCovers ==
    PageNext \/ CoverNext \/ ConsumeNormal \/ ConsumeRescrape \/ Exit

Next == PageNext \/ ConsumeNormal \/ ConsumeRescrape \/ Exit

\* One session without covers: a ranged scrape into a new output file, or a
\* rescrape of an existing metadata file.
Spec ==
    /\ \/ InitNormal(FreshConfigs, PriorForbidden)
       \/ InitRescrape(PlainRescrapeConfigs)
    /\ [][Next]_vars

\* One ranged session that resumes an existing output file.
SpecResume ==
    InitNormal(ResumeConfigs, PriorForbidden) /\ [][NextNormal]_vars

\* One session that may download covers and starts from an empty
\* forbidden.txt: a full-metadata ranged scrape, or a rescrape.
SpecCovers ==
    /\ \/ InitNormal(MetadataConfigs, {<<>>})
       \/ InitRescrape(CoverRescrapeConfigs)
    /\ [][NextCovers]_vars

\* Sessions that start a new output file under the default policy.
KillConfigs ==
    {c \in FreshConfigs : ~c.ignore_forbidden_file /\ ~c.scrape_skipped_novels}

NextKill == NextNormal \/ BufferFlush \/ Kill

\* One ranged session into a new output file that may be killed.
SpecKill == InitNormal(KillConfigs, {<<>>}) /\ [][NextKill]_vars

\* Full-metadata sessions under the default policy that resume a file.
ScanConfigs ==
    {c \in ResumeConfigs : c.scrape_metadata /\ ~c.ignore_forbidden_file}

\* One ranged session that resumes a metadata file with malformed lines.
SpecScan == InitScan(ScanConfigs) /\ [][NextNormal]_vars

\* Full-metadata sessions under the default policy: a ranged scrape into a
\* new file, and a rescrape of every record.
DiskConfigs ==
    {c \in KillConfigs : c.scrape_metadata}
    \cup {c \in PlainRescrapeConfigs : /\ ~c.scrape_skipped_novels
                                       /\ ~c.skip_completed_on_rescrape}

NextDisk == Next \/ DiskFills

\* One session without covers whose disk may run full.
SpecDisk ==
    /\ \/ InitNormal({c \in DiskConfigs : ~c.rescrape}, {<<>>})
       \/ InitRescrape({c \in DiskConfigs : c.rescrape})
    /\ [][NextDisk]_vars

\* main of NovelpiaScraper.py up to the creation of the tasks, for a session
\* into a new output file: no ID is indexed, the forbidden IDs are left out.
InitStable(configs) == InitNormal(configs, {<<>>})

NextStable == PageNext \/ ConsumeStable \/ Exit

\* One session of NovelpiaScraper.py into a new output file without covers.
\* Its fetch_page has the ladder of the Beta script, and without covers its
\* process_novel the same steps; only the loop of main differs.
SpecStable == InitStable(KillConfigs) /\ [][NextStable]_vars

NextRescrape == PageNext \/ ConsumeRescrape \/ Exit

\* One rescrape of every record of a metadata file with repeated IDs.
SpecDuplicates ==
    /\ InitRescrapeDuplicates({c \in DiskConfigs : c.rescrape})
    /\ [][NextRescrape]_vars

\* The event loop runs every coroutine that can resume: a request that is
\* in flight gets its response, error or timeout, a sleep ends, a pending
\* CancelledError is delivered, a free permit is taken, and the
\* orchestrator resumes when a completion is in the queue of as_completed.
Fairness ==
    /\ WF_vars(PageNext)
    /\ WF_vars(ConsumeNormal)
    /\ WF_vars(ConsumeRescrape)
    /\ WF_vars(Exit)

\* One full-metadata session without covers under a fair event loop.
SpecLive ==
    /\ \/ InitNormal({c \in DiskConfigs : ~c.rescrape}, {<<>>})
       \/ InitRescrape({c \in DiskConfigs : c.rescrape})
    /\ [][Next]_vars
    /\ Fairness

\* ------------------------------------------------------------------ claims

\* C1: as long as every response of a fetch is blank, the fetch is after its
\* first blank in the short delay, after its second in the long cooldown and
\* after its third, and only then, at IPBanException: a ban is raised after
\* exactly three attempts and three blank pages, never after fewer.
C1_BanAfterThreeBlanks ==
    \A t \in Tasks :
        /\ (attempts[t] > 0 /\ blanks[t] = attempts[t]) =>
              \/ blanks[t] = 1 /\ pc[t] = "sleep5"
              \/ blanks[t] = 2 /\ pc[t] = "cooldown"
              \/ blanks[t] = 3 /\ pc[t] = "ban"
        /\ pc[t] = "ban" => attempts[t] = 3 /\ blanks[t] = 3

\* A fetch has ended in IPBanException.
C1_Witness == \E t \in Tasks : pc[t] = "ban" /\ blanks[t] = 3

\* C8: the number of tasks between the acquire and the release of the
\* semaphore never exceeds CONCURRENT_REQUESTS_LIMIT.
C8_GateBound ==
    Cardinality({t \in Tasks : pc[t] \in HoldsGate}) <= CONCURRENT_REQUESTS_LIMIT

\* The gate is full and a further task waits for a permit.
C8_Witness ==
    /\ Cardinality({t \in Tasks : pc[t] \in HoldsGate})
          = CONCURRENT_REQUESTS_LIMIT
    /\ \E t \in Tasks : pc[t] = "gate"

\* C9: a failed request, on whichever attempt, ends the fetch at once with
\* network_error: the task has returned in the state right after the
\* failure, no cooldown and no ban follows, and no further attempt is made.
C9_TransportErrorEndsFetch ==
    /\ [](\A t \in Tasks :
            errors[t] > 0 => /\ errors[t] = 1
                             /\ pc[t] = "returned"
                             /\ result[t].status = "network_error")
    /\ [][\A t \in Tasks :
            errors[t] > 0 => /\ attempts'[t] = attempts[t]
                             /\ blanks'[t] = blanks[t]
                             /\ pc'[t] = pc[t]]_vars

\* The request after the cooldown has failed.
C9_Witness ==
    \E t \in Tasks : errors[t] = 1 /\ attempts[t] = 3 /\ pc[t] = "returned"

\* C10, as stated: an ID is marked network_error only after the retries of
\* the ladder are exhausted, that is after all three attempts.
C10_NetworkErrorAfterRetries ==
    \A t \in Tasks : result[t].status = "network_error" => attempts[t] = 3

\* C10, amended: a failed request is not retried.  An ID marked
\* network_error has had exactly one failed request, on any of the three
\* attempts, and every attempt before it returned a blank page.
C10_NetworkErrorAtFirstFailure ==
    \A t \in Tasks :
        result[t].status = "network_error" =>
            /\ errors[t] = 1
            /\ attempts[t] \in 1 .. 3
            /\ blanks[t] = attempts[t] - 1

\* An ID is marked network_error after a single attempt.
C10_Witness ==
    \E t \in Tasks : result[t].status = "network_error" /\ attempts[t] = 1

\* C2: in a resumed ranged scrape no two lines of the output file carry the
\* same ID.
C2_NoDuplicateIds ==
    \A j, k \in 1 .. Len(out_file) : j # k => out_file[j].id # out_file[k].id

\* C3: no step of a session that downloads covers moves the counter
\* current_download_size_bytes[0] from within the budget to above it.
C3_QuotaWithinBudget ==
    [][quota <= config.max_storage_bytes =>
         quota' <= config.max_storage_bytes]_vars

\* C4: in the ranged scrape, once the task of an ID has returned
\* latest_novel_reached, no task of a greater ID that has not finished yet
\* writes a line to the output.
C4_NoLineAboveBoundary ==
    [][\A t, u \in Tasks :
         (/\ ~config.rescrape
          /\ result[u].status = "latest_novel_reached"
          /\ IntOf(task_ids[t]) > IntOf(task_ids[u])
          /\ ~Done(t))
         => /\ ~result'[t].data_wr
            /\ \A k \in 1 .. Len(out_file') : out_file'[k].id # task_ids[t]]_vars

C6_LinePerValidPage ==
    (~config.rescrape /\ outcome = "complete") =>
        \A t \in Tasks :
            /\ Cardinality({k \in 1 .. Len(out_file) :
                               out_file[k].id = task_ids[t]})
                  = IF kind[t] = "valid" THEN 1 ELSE 0
            /\ Cardinality({k \in 1 .. Len(forbidden_file) :
                               forbidden_file[k] = task_ids[t]})
                  = IF kind[t] \in {"deleted", "denied"} THEN 1 ELSE 0

\* C6, amended: after such a run the output holds one line for each ID whose
\* page was found valid and whose task ran to its end, and none for any
\* other ID: a task cancelled while it downloads its cover leaves no line.
\* forbidden.txt holds one line for each ID whose page was found deleted or
\* access-denied, and none for any other ID.
C6_LinePerReturnedValidPage ==
    (~config.rescrape /\ outcome = "complete") =>
        \A t \in Tasks :
            /\ Cardinality({k \in 1 .. Len(out_file) :
                               out_file[k].id = task_ids[t]})
                  = IF kind[t] = "valid" /\ pc[t] = "returned" THEN 1 ELSE 0
            /\ Cardinality({k \in 1 .. Len(forbidden_file) :
                               forbidden_file[k] = task_ids[t]})
                  = IF kind[t] \in {"deleted", "denied"} THEN 1 ELSE 0

\* The range 0-2 with ID 1 deleted: two lines, of IDs 0 and 2, and a
\* forbidden.txt that holds 000001 only.
C6_Witness ==
    /\ ~config.rescrape /\ outcome = "complete"
    /\ \E t0, t1, t2 \in Tasks :
          /\ task_ids[t0] = "000000" /\ kind[t0] = "valid"
          /\ task_ids[t1] = "000001" /\ kind[t1] = "deleted"
          /\ task_ids[t2] = "000002" /\ kind[t2] = "valid"
    /\ {out_file[k].id : k \in 1 .. Len(out_file)} = {"000000", "000002"}
    /\ Len(out_file) = 2
    /\ forbidden_file = <<"000001">>

\* C7: from the step in which the orchestrator consumes an IPBanException
\* on, no task sends a page request or a cover request, no line is added to
\* the output or to the '.tmp' file, and the lines of the output stay.
C7_BanEndsWork ==
    [][outcome' = "ban" =>
         /\ \A t \in Tasks :
               pc'[t] \in PageRequest \cup {"dl_get"} => pc'[t] = pc[t]
         /\ out_file' = out_file
         /\ tmp_file' = tmp_file \/ tmp_file' = <<>>]_vars

\* A ban was consumed after a line had been written, while another task
\* was waiting to send its next request; the task was cancelled since.
C7_Witness ==
    /\ outcome = "ban" /\ ~config.rescrape /\ out_file # <<>>
    /\ \E t \in Tasks : pc[t] = "cancelled"

\* C11: the step in which a fetch ends in network_error changes neither the
\* output file, the '.tmp' file, forbidden.txt nor the forbidden set; and in
\* a ranged scrape the ID is still a candidate of a session that resumes the
\* output file over the same range.
C11_NetworkErrorLeavesNoTrace ==
    /\ [][\A t \in Tasks :
            (result'[t].status = "network_error"
             /\ result[t].status # "network_error")
            => /\ out_file' = out_file /\ tmp_file' = tmp_file
               /\ forbidden_file' = forbidden_file
               /\ forbidden_ids' = forbidden_ids]_vars
    /\ [](\A t \in Tasks :
            (/\ ~config.rescrape /\ config.output_file
             /\ result[t].status = "network_error")
            => \E k \in 1 .. MaxId + 1 :
                  LET later == Candidates(0,
                          IndexedIds([config EXCEPT !.continue_scrape = TRUE],
                                     out_file),
                          LoadForbidden(config, forbidden_file))
                  IN  k <= Len(later) /\ later[k] = task_ids[t])

\* A ranged scrape has run to its end with a line written for one ID, a
\* forbidden entry added for another and network_error for a third.
C11_Witness ==
    /\ ~config.rescrape /\ outcome = "complete"
    /\ ~config.ignore_forbidden_file
    /\ out_file # <<>>
    /\ \E t, u \in Tasks :
          /\ result[t].status = "network_error"
          /\ result[u].status = "skipped_forbidden"

\* C12: in a ranged scrape a task that is sending a page request has an ID
\* that is not in indexed_ids and, unless forbidden.txt is ignored, not in
\* the forbidden set.
C12_NoFetchOfExcludedId ==
    \A t \in Tasks :
        (~config.rescrape /\ pc[t] \in PageRequest) =>
            /\ task_ids[t] \notin IndexedIds(config, orig_file)
            /\ ~config.ignore_forbidden_file =>
                  task_ids[t] \notin forbidden_ids

\* A resumed session that found one ID in its output file and another in
\* forbidden.txt is sending the page request of the remaining ID.
C12_Witness ==
    /\ ~config.rescrape /\ ~config.ignore_forbidden_file
    /\ IndexedIds(config, orig_file) \cap IdStrings # {}
    /\ forbidden_ids # {}
    /\ IndexedIds(config, orig_file) \cap forbidden_ids = {}
    /\ \E t \in Tasks : pc[t] = "get1"

\* C13: forbidden.txt never holds the same ID on two lines.
C13_ForbiddenOnce ==
    \A j, k \in 1 .. Len(forbidden_file) :
        j # k => forbidden_file[j] # forbidden_file[k]

\* C14: a download_cover that finds the counter at or over the budget when
\* its delay is over sends no request: the task goes on to write its record
\* with cover_local_path SKIPPED_LIMIT, the counter is unchanged and no
\* cover counts as downloaded.
C14_OverBudgetSkipsRequest ==
    [][\A t \in Tasks :
         (/\ pc[t] = "dl_delay" /\ pc'[t] # "dl_delay"
          /\ t \notin cancel_req
          /\ quota >= config.max_storage_bytes)
         => /\ pc'[t] \in {"returned", "fault"}
            /\ quota' = quota
            /\ received'[t] = 0
            /\ ~result'[t].cover_dl
            /\ pc'[t] = "returned" =>
                  LET f == IF config.rescrape THEN tmp_file' ELSE out_file'
                  IN  /\ Len(f) = Len(IF config.rescrape THEN tmp_file
                                                          ELSE out_file) + 1
                      /\ f[Len(f)].id = task_ids[t]
                      /\ f[Len(f)].cover = "SKIPPED_LIMIT"]_vars

\* A task has written its record with SKIPPED_LIMIT without having read
\* any cover content.
C14_Witness ==
    \E t \in Tasks :
        /\ pc[t] = "returned" /\ received[t] = 0
        /\ quota >= config.max_storage_bytes
        /\ \E k \in 1 .. Len(out_file) :
              /\ out_file[k].id = task_ids[t]
              /\ out_file[k].cover = "SKIPPED_LIMIT"

\* C15: when the content of a cover has been read and the counter plus
\* len(content) exceeds the budget, the cover is not stored: the counter is
\* unchanged, no cover counts as downloaded and the record is written with
\* cover_local_path SKIPPED_LIMIT.
C15_ContentOverBudgetDiscarded ==
    [][\A t \in Tasks :
         (/\ pc[t] = "dl_get" /\ received[t] = 0 /\ received'[t] > 0
          /\ quota + received'[t] > config.max_storage_bytes)
         => /\ pc'[t] \in {"returned", "fault"}
            /\ quota' = quota
            /\ ~result'[t].cover_dl
            /\ pc'[t] = "returned" =>
                  LET f == IF config.rescrape THEN tmp_file' ELSE out_file'
                  IN  /\ Len(f) = Len(IF config.rescrape THEN tmp_file
                                                          ELSE out_file) + 1
                      /\ f[Len(f)].id = task_ids[t]
                      /\ f[Len(f)].cover = "SKIPPED_LIMIT"]_vars

\* A cover was refused after its content was read, because the cover of
\* another task had been stored in the meantime: the counter was below the
\* budget when the request was sent.
C15_Witness ==
    \E t, u \in Tasks :
        /\ t # u /\ received[t] > 0 /\ received[u] > 0
        /\ quota = config.max_storage_bytes
        /\ \E j, k \in 1 .. Len(out_file) :
              /\ j < k
              /\ out_file[j].id = task_ids[u]
              /\ out_file[j].cover = "local_path"
              /\ out_file[k].id = task_ids[t]
              /\ out_file[k].cover = "SKIPPED_LIMIT"

\* C16: the only step of a task on which cancel() was called is the one
\* that ends it as cancelled, and that step adds no line to the output or
\* the '.tmp' file, no entry to forbidden.txt or the forbidden set, reads no
\* cover and leaves the counter alone; a cancelled task has returned nothing.
C16_CancelledTaskNoSideEffect ==
    /\ [][\A t \in Tasks :
            (t \in cancel_req /\ pc'[t] # pc[t])
            => /\ pc'[t] = "cancelled"
               /\ out_file' = out_file /\ tmp_file' = tmp_file
               /\ forbidden_file' = forbidden_file
               /\ forbidden_ids' = forbidden_ids
               /\ quota' = quota
               /\ received'[t] = received[t]]_vars
    /\ [](\A t \in Tasks : pc[t] = "cancelled" => result[t] = NoResult)

\* Boundary handling has cancelled a task whose page was valid and which
\* was downloading its cover; no line carries its ID.
C16_Witness ==
    /\ ~config.rescrape /\ latest_known_novel_id < Inf
    /\ \E t \in Tasks :
          /\ pc[t] = "cancelled" /\ kind[t] = "valid"
          /\ \A k \in 1 .. Len(out_file) : out_file[k].id # task_ids[t]

\* C17, as stated: every request of a fetch is preceded by a randomized
\* delay of its own and uses a header drawn for it: a fetch has made as many
\* randomized sleeps and as many header draws as requests.
C17_DelayAndHeaderPerAttempt ==
    \A t \in Tasks :
        attempts[t] > 0 => /\ random_delays[t] = attempts[t]
                           /\ header_draws[t] = attempts[t]

\* C17, amended: a fetch makes one randomized delay and one header draw,
\* before its first request; the second and the final request follow the
\* fixed sleeps and reuse that header.
C17_OneDelayAndHeaderPerFetch ==
    \A t \in Tasks :
        attempts[t] > 0 => /\ random_delays[t] = 1
                           /\ header_draws[t] = 1

\* A fetch has sent its final request.
C17_Witness ==
    \E t \in Tasks : attempts[t] = 3 /\ pc[t] = "get3" /\ header_draws[t] = 1

\* C18: a fetch keeps its permit from its first request to its end, the
\* short sleep and the cooldown included: the free permits are the limit
\* less the tasks at a request or in a sleep of the ladder, and while as
\* many tasks as the limit are in the cooldown no task sends a first request.
C18_GateHeldThroughCooldown ==
    /\ [](sem_value + Cardinality({t \in Tasks :
              pc[t] \in {"get1", "sleep5", "get2", "cooldown", "get3"}})
            = CONCURRENT_REQUESTS_LIMIT)
    /\ [][Cardinality({t \in Tasks : pc[t] = "cooldown"})
            = CONCURRENT_REQUESTS_LIMIT
          => \A u \in Tasks : pc'[u] = "get1" => pc[u] = "get1"]_vars

\* As many tasks as the limit are in the cooldown and a further task waits
\* for a permit.
C18_Witness ==
    /\ Cardinality({t \in Tasks : pc[t] = "cooldown"})
          = CONCURRENT_REQUESTS_LIMIT
    /\ sem_value = 0
    /\ \E u \in Tasks : pc[u] = "gate"

\* C19, as stated: under the default policy an ID whose page is unparseable
\* is in the forbidden set and in forbidden.txt.
C19_UnparseableForbidden ==
    \A t \in Tasks :
        (kind[t] = "unparseable" /\ ~config.scrape_skipped_novels) =>
            /\ task_ids[t] \in forbidden_ids
            /\ \E k \in 1 .. Len(forbidden_file) :
                  forbidden_file[k] = task_ids[t]

\* C19, amended: an ID whose page is unparseable is reported as
\* skipped_no_data and nothing is recorded for it: the step writes no line
\* and adds no forbidden entry, and the ID is not in the forbidden set, so a
\* later run fetches it again.
C19_UnparseableNotRecorded ==
    /\ [][\A t \in Tasks :
            (kind'[t] = "unparseable" /\ kind[t] # "unparseable")
            => /\ pc'[t] = "returned"
               /\ result'[t] = Returned("skipped_no_data", FALSE, FALSE)
               /\ out_file' = out_file /\ tmp_file' = tmp_file
               /\ forbidden_file' = forbidden_file
               /\ forbidden_ids' = forbidden_ids]_vars
    /\ [](\A t \in Tasks :
            (kind[t] = "unparseable" /\ ~config.rescrape)
            => task_ids[t] \notin forbidden_ids)

\* A ranged scrape under the default policy has run to its end with an
\* unparseable page for one ID and a forbidden entry added for another.
C19_Witness ==
    /\ ~config.rescrape /\ ~config.scrape_skipped_novels
    /\ outcome = "complete"
    /\ \E t, u \in Tasks :
          /\ kind[t] = "unparseable"
          /\ result[u].status = "skipped_forbidden"
          /\ task_ids[u] \in forbidden_ids

\* C20: when the process is killed, the line of every task that has written
\* its record is in the output file.
C20_WrittenLineSurvivesKill ==
    orch = "killed" =>
        \A t \in Tasks :
            result[t].data_wr =>
                \E k \in 1 .. Len(out_file) : out_file[k].id = task_ids[t]

\* C24: when the loop of a ranged scrape has ended, found_count and
\* covers_downloaded count no result of an ID above latest_known_novel_id,
\* the lowest boundary ID consumed: each total is at most the number of
\* returned results, of that kind, whose ID is not above it.
C24_TotalsExcludeAboveBoundary ==
    (~config.rescrape /\ orch # "loop") =>
        /\ found_count <=
             Cardinality({t \in Tasks :
                 /\ result[t].data_wr
                 /\ IntOf(task_ids[t]) <= latest_known_novel_id})
        /\ covers_downloaded <=
             Cardinality({t \in Tasks :
                 /\ result[t].cover_dl
                 /\ IntOf(task_ids[t]) <= latest_known_novel_id})

\* C27: the HTTP requests in flight, page requests of fetch_page and cover
\* requests of download_cover together, are never more than
\* CONCURRENT_REQUESTS_LIMIT.
C27_RequestsWithinLimit ==
    Cardinality({t \in Tasks : pc[t] \in PageRequest \cup {"dl_get"}})
        <= CONCURRENT_REQUESTS_LIMIT

\* C25: a task whose page was parsed as valid and that ends without being
\* cancelled, while the handle is open, ends by returning 'found' with
\* data_written set, and the step that ends it appends exactly one line, the
\* record of its ID, to the sink (the output file, or the '.tmp' file of a
\* rescrape), whatever became of the cover: skipped as adult, found on disk,
\* refused for the budget, or failed to download.
C25_AssetOutcomeKeepsRecord ==
    [][\A t \in Tasks :
         (/\ WritesRecord /\ f_open
          /\ ~Done(t) /\ t \notin cancel_req
          /\ kind'[t] = "valid" /\ pc'[t] \in Terminal)
         => /\ pc'[t] = "returned"
            /\ result'[t].status = "found"
            /\ result'[t].data_wr
            /\ \E cover \in {"None", "SKIPPED_ADULT", "SKIPPED_LIMIT",
                             "DOWNLOAD_FAILED_UNKNOWN", "local_path"} :
                  LET line == Line("json", task_ids[t], <<>>, "found", FALSE,
                                   cover)
                  IN  IF config.rescrape
                      THEN /\ tmp_file' = Append(tmp_file, line)
                           /\ out_file' = out_file
                      ELSE /\ out_file' = Append(out_file, line)
                           /\ tmp_file' = tmp_file]_vars

\* Three records of one ranged scrape: one whose cover was on disk already
\* (no content was read), one whose cover was refused for the budget, one
\* whose download failed.
C25_Witness ==
    /\ ~config.rescrape /\ Len(out_file) = 3
    /\ \A t \in Tasks : pc[t] = "returned" /\ kind[t] = "valid"
    /\ \E t, u, v \in Tasks :
          /\ result[t].cover_dl /\ received[t] = 0
          /\ \E k \in 1 .. 3 : /\ out_file[k].id = task_ids[u]
                               /\ out_file[k].cover = "SKIPPED_LIMIT"
          /\ \E k \in 1 .. 3 : /\ out_file[k].id = task_ids[v]
                               /\ out_file[k].cover = "DOWNLOAD_FAILED_UNKNOWN"

\* C30: fetch_page sends at most three requests, and where it stands is
\* fixed by the responses so far.  The k-th request is in flight after k - 1
\* blank pages and nothing else; the 5 s sleep follows one blank page after
\* one request, the 24 h sleep two blank pages after two requests.  The
\* call ends in one way only: IPBanException after three blank pages and no
\* failure; None ('network_error') at the first failed request, after blank
\* pages only; and a page with content ends the call at once, so a task
\* that holds a parsed page is at no await of fetch_page, has not failed
\* and is not banned.
C30_LadderOutcome ==
    \A t \in Tasks :
        /\ attempts[t] <= 3 /\ blanks[t] <= attempts[t] /\ errors[t] <= 1
        /\ pc[t] = "get1" => attempts[t] = 1 /\ blanks[t] = 0 /\ errors[t] = 0
        /\ pc[t] = "sleep5" =>
              attempts[t] = 1 /\ blanks[t] = 1 /\ errors[t] = 0
        /\ pc[t] = "get2" => attempts[t] = 2 /\ blanks[t] = 1 /\ errors[t] = 0
        /\ pc[t] = "cooldown" =>
              attempts[t] = 2 /\ blanks[t] = 2 /\ errors[t] = 0
        /\ pc[t] = "get3" => attempts[t] = 3 /\ blanks[t] = 2 /\ errors[t] = 0
        /\ pc[t] = "ban" =>
              attempts[t] = 3 /\ blanks[t] = 3 /\ errors[t] = 0 /\ kind[t] = ""
        /\ errors[t] = 1 =>
              /\ pc[t] = "returned" /\ result[t].status = "network_error"
              /\ blanks[t] = attempts[t] - 1 /\ kind[t] = ""
        /\ result[t].status = "network_error" => errors[t] = 1
        /\ kind[t] # "" =>
              /\ pc[t] \notin {"delay", "gate", "ban"} \cup HoldsGate
              /\ result[t].status # "network_error"

\* The three outcomes side by side: one fetch returned a page, one was
\* banned, and one failed at its second request, after a blank page.
C30_Witness ==
    \E t, u, v \in Tasks :
        /\ kind[t] = "valid"
        /\ pc[u] = "ban"
        /\ result[v].status = "network_error" /\ blanks[v] = 1

\* C22: print_summary is called exactly once by the end of a session: not
\* while the loop runs, and once when the orchestrator is done, however it
\* ended, the session that found nothing to process included.
C22_SummaryOnce ==
    /\ orch = "loop" => summaries = 0
    /\ orch \in {"closing", "exited"} => summaries = 1

\* C23: once the write of a record has failed, no task sends a further
\* page request and no further line reaches the output or the '.tmp' file;
\* and when the session has ended after the failure, the output of a ranged
\* scrape still holds what was written and the rescrape has removed its
\* '.tmp' file and left the original as it was.
C23_WriteFailureStopsSession ==
    /\ [][(\E t \in Tasks : pc[t] = "fault" /\ kind[t] = "valid" /\ disk_full)
          => /\ \A u \in Tasks : pc'[u] \in PageRequest => pc[u] \in PageRequest
             /\ Len(out_file') <= Len(out_file) \/ config.rescrape
             /\ Len(tmp_file') <= Len(tmp_file)]_vars
    /\ [](outcome = "fault" /\ config.rescrape
          => out_file = orig_file /\ ~tmp_exists)

\* C21: the scan of the existing output at startup ignores every malformed
\* line: whatever lines that are not JSON, not a JSON object, or an object
\* without an id the file holds, the session is not aborted, and it creates
\* the tasks of the IDs that no well-formed line of the file names.
C21_MalformedLinesIgnored ==
    (\E k \in 1 .. Len(orig_file) : orig_file[k] \in MalformedLines)
        => /\ outcome # "aborted"
           /\ task_ids =
                Candidates(0,
                    {orig_file[k].id :
                        k \in {j \in 1 .. Len(orig_file) :
                                 orig_file[j] \notin MalformedLines}},
                    forbidden_ids \ {task_ids[t] : t \in Tasks})

\* C26: the file a rescrape has moved into place holds each ID on at most
\* one line, also when the original named an ID more than once.
C26_ReplacedOutputDistinct ==
    (config.rescrape /\ outcome = "complete") =>
        DistinctIds([k \in 1 .. Len(out_file) |-> out_file[k].id])

\* C28: in NovelpiaScraper.py, once the loop of main has consumed a task
\* that ended in IPBanException, no task sends a page request and no line
\* is added to the output.
C28_StableBanEndsWork ==
    [][(\E b \in Tasks : pc[b] = "ban" /\ Consumed(b))
       => /\ \A t \in Tasks : pc'[t] \in PageRequest => pc'[t] = pc[t]
          /\ out_file' = out_file]_vars

\* C29: in NovelpiaScraper.py, once the loop of main has consumed a
\* latest_novel_reached result for ID b, cancel() has been called on every
\* unfinished task of a greater ID, none of them writes a line from then
\* on, and the totals count no result of an ID above b.
C29_StableBoundaryCancels ==
    /\ [](\A u, t \in Tasks :
            (/\ Consumed(u) /\ result[u].status = "latest_novel_reached"
             /\ IntOf(task_ids[t]) > IntOf(task_ids[u]) /\ ~Done(t))
            => t \in cancel_req)
    /\ [][\A u, t \in Tasks :
            (/\ Consumed(u) /\ result[u].status = "latest_novel_reached"
             /\ IntOf(task_ids[t]) > IntOf(task_ids[u]) /\ ~Done(t))
            => /\ ~result'[t].data_wr
               /\ \A k \in 1 .. Len(out_file') :
                     out_file'[k].id # task_ids[t]]_vars

\* C31: the step in which process_novel receives a deleted or
\* access-denied page.  With scrape_skipped_novels set (and the handle
\* open) the task returns the page's status with data_written set, exactly
\* one line, the record of its ID with that status, is appended to the sink,
\* and neither the forbidden set nor forbidden.txt changes.  Without the
\* option the task returns 'skipped_forbidden', its ID is in the forbidden
\* set and in forbidden.txt afterwards, and no line is written.
C31_SkippedPagesByOption ==
    [][\A t \in Tasks :
         (kind[t] = "" /\ kind'[t] \in {"deleted", "denied"})
         => LET status == IF kind'[t] = "deleted" THEN "deleted_novel"
                          ELSE "access_denied_novel"
                line == Line("json", task_ids[t], <<>>, status, FALSE, "None")
            IN  IF config.scrape_skipped_novels
                THEN /\ forbidden_ids' = forbidden_ids
                     /\ forbidden_file' = forbidden_file
                     /\ f_open =>
                          /\ pc'[t] = "returned"
                          /\ result'[t] = Returned(status, FALSE, TRUE)
                          /\ IF config.rescrape
                             THEN /\ tmp_file' = Append(tmp_file, line)
                                  /\ out_file' = out_file
                             ELSE /\ out_file' = Append(out_file, line)
                                  /\ tmp_file' = tmp_file
                ELSE /\ pc'[t] = "returned"
                     /\ result'[t] = Returned("skipped_forbidden", FALSE, FALSE)
                     /\ task_ids[t] \in forbidden_ids'
                     /\ \E k \in 1 .. Len(forbidden_file') :
                           forbidden_file'[k] = task_ids[t]
                     /\ out_file' = out_file
                     /\ tmp_file' = tmp_file]_vars

\* One ranged scrape that records the skipped pages: a deleted and an
\* access-denied page were written, one line each, and nothing was
\* forbidden-listed.
C31_Witness ==
    /\ config.scrape_skipped_novels /\ ~config.rescrape
    /\ forbidden_ids = {} /\ forbidden_file = <<>>
    /\ \E t, u \in Tasks :
          /\ kind[t] = "deleted" /\ kind[u] = "denied"
          /\ result[t].data_wr /\ result[u].data_wr
          /\ Len(out_file) = 2
          /\ {out_file[1].status, out_file[2].status}
                = {"deleted_novel", "access_denied_novel"}

\* C32: a session ends only by the completion of its loop or by a ban: no
\* page a task receives, a page without an extractable title included,
\* makes the loop end otherwise, so that a loop that has ended without a
\* ban has consumed every task.
C32_OnlyBanEndsSession ==
    (orch # "loop" /\ outcome \notin {"ban", "empty"}) =>
        /\ outcome = "complete"
        /\ \A t \in TrackedTasks : Consumed(t)

\* C33: the permits of the semaphore are conserved.  The free permits are
\* the limit less the tasks inside "async with semaphore"; when every task
\* has ended, by a page, None, IPBanException or CancelledError, all
\* permits are free again; and a task never waits at the gate while no task
\* is inside.
C33_PermitsConserved ==
    /\ sem_value = CONCURRENT_REQUESTS_LIMIT
                     - Cardinality({t \in Tasks : pc[t] \in HoldsGate})
    /\ (\A t \in Tasks : Done(t)) => sem_value = CONCURRENT_REQUESTS_LIMIT
    /\ \A t \in Tasks :
          (pc[t] = "gate" /\ sem_value = 0)
              => \E u \in Tasks : pc[u] \in HoldsGate

\* A session that a ban has ended: one fetch raised IPBanException, the two
\* other tasks were cancelled, every task has ended and every permit is
\* free.
C33_Witness ==
    /\ \A t \in Tasks : Done(t)
    /\ \E t \in Tasks : pc[t] = "ban"
    /\ Cardinality({t \in Tasks : pc[t] = "cancelled"}) = 2
    /\ sem_value = CONCURRENT_REQUESTS_LIMIT

\* C34: when a rescrape has run to its end and replaced the original, every
\* ID of the original file is on a line of the new file.
C34_RescrapeKeepsEveryId ==
    (config.rescrape /\ outcome = "complete") =>
        \A k \in 1 .. Len(orig_file) :
            \E j \in 1 .. Len(out_file) : out_file[j].id = orig_file[k].id

\* C35: no ID is both on a line the session wrote and on a line it added
\* to forbidden.txt.  The session starts from an empty forbidden.txt, and
\* its lines are those of the '.tmp' file while the loop runs and those of
\* the replaced output when the loop has run to its end.
C35_WrittenOrForbidden ==
    LET written == IF orch = "loop" THEN tmp_file
                   ELSE IF outcome = "complete" THEN out_file ELSE <<>>
    IN  \A j \in 1 .. Len(written), k \in 1 .. Len(forbidden_file) :
            written[j].id # forbidden_file[k]

\* C36: under a fair event loop every session comes to its end: every task
\* has ended (returned, raised or cancelled), the orchestrator has left its
\* loop and the session, and the handle is closed.
C36_SessionTerminates ==
    <>(/\ orch = "exited"
       /\ ~f_open
       /\ \A t \in Tasks : Done(t))

\* A ranged scrape that ran to its end after a boundary: a task was
\* cancelled, another returned, the loop completed and the session is left.
C36_Witness ==
    /\ orch = "exited" /\ outcome = "complete" /\ ~f_open
    /\ latest_known_novel_id < Inf
    /\ \A t \in Tasks : Done(t)
    /\ \E t \in Tasks : pc[t] = "cancelled"

\* C37: in the ranged scrape latest_known_novel_id is the least ID of the
\* latest_novel_reached results consumed so far (above every ID before the
\* first one) and never grows, and an iteration of the loop that does not
\* end in a ban calls cancel() only on tasks whose ID is greater than it.
C37_BoundaryCancelsAboveOnly ==
    /\ [](~config.rescrape =>
            LET seen == {IntOf(task_ids[t]) :
                           t \in {u \in Tasks :
                                    /\ Consumed(u)
                                    /\ result[u].status
                                         = "latest_novel_reached"}}
            IN  /\ \A b \in seen : latest_known_novel_id <= b
                /\ latest_known_novel_id \in seen \cup {Inf}
                /\ seen = {} => latest_known_novel_id = Inf)
    /\ [][(~config.rescrape /\ orch = "loop" /\ outcome' # "ban")
          => /\ latest_known_novel_id' <= latest_known_novel_id
             /\ \A t \in cancel_req' \ cancel_req :
                   IntOf(task_ids[t]) > latest_known_novel_id']_vars

\* Two boundaries were consumed, for the IDs 1 and 2, and the task of ID 0,
\* below both, has returned its own record.
C37_Witness ==
    /\ ~config.rescrape /\ latest_known_novel_id = 1
    /\ \E t, u, v \in Tasks :
          /\ task_ids[t] = "000001" /\ task_ids[u] = "000002"
          /\ task_ids[v] = "000000"
          /\ Consumed(t) /\ result[t].status = "latest_novel_reached"
          /\ Consumed(u) /\ result[u].status = "latest_novel_reached"
          /\ pc[v] = "returned" /\ result[v].data_wr

\* C38: when the loop of a ranged scrape into a new file has run to its
\* end or was left by a ban, found_count, the 'data entries written' of the
\* summary, is the number of lines the session has appended to the output.
C38_SummaryCountsLines ==
    (/\ ~config.rescrape /\ ~config.continue_scrape
     /\ outcome \in {"complete", "ban"})
        => found_count = Len(out_file)

\* C39: a page request that enters the gate is preceded by the randomized
\* delay: the task that sends its first request does so in the step that
\* ends its asyncio.sleep(random.uniform(min_delay, max_delay)), never
\* straight from the wait for a permit that another fetch has just given
\* back.
C39_DelayBeforeAdmittedRequest ==
    [][\A t \in Tasks :
         (pc[t] # "get1" /\ pc'[t] = "get1") => pc[t] = "delay"]_vars

====
